---- MODULE Spec2Model ----
(***************************************************************************)
(* Price scraper for eight Colombian pharmacy sites: the multi-product     *)
(* driver price_scrapper4.py and the single-product driver                 *)
(* price_scrapper_co.py.                                                   *)
(*                                                                         *)
(* A text is a sequence of characters; a character is a one-token string.  *)
(* The tokens "o'" "e'" "O'" stand for the precomposed letters U+00F3,     *)
(* U+00E9, U+00D3, and "^" for the combining acute accent U+0301.          *)
(* Python's None is the value None below.                                  *)
(***************************************************************************)
EXTENDS Integers, Sequences, FiniteSets, TLC

\* ---------------------------------------------------------------- texts

None == <<"NONE">>

\* Python truthiness of an optional string: None and "" are falsy.
Truthy(t) == t # None /\ t # <<>>

\* x or d
OrElse(x, d) == IF Truthy(x) THEN x ELSE d

NA == <<"N", "/", "A">>
ZeroText == <<"0">>

DigitChars == <<"0", "1", "2", "3", "4", "5", "6", "7", "8", "9">>

DigitValOf ==
    [d \in {DigitChars[i] : i \in 1..Len(DigitChars)} |->
        (CHOOSE i \in 1..Len(DigitChars) : DigitChars[i] = d) - 1]

IsDigit(c) == c \in DOMAIN DigitValOf

DigitVal(c) == DigitValOf[c]

\* str.isspace() characters of the model's alphabet
Whitespace == {" ", "\t", "\n"}

\* A value returned, or an exception raised in its place.
Ret(v) == [exc |-> "none", val |-> v]
Raise(e) == [exc |-> e, val |-> None]

\* re.sub(r'[^0-9]', '', s)
OnlyDigits(s) == SelectSeq(s, IsDigit)

\* int(ds or 0) for a string ds of decimal digits
RECURSIVE IntOf(_)
IntOf(ds) ==
    IF ds = <<>> THEN 0
    ELSE IntOf(SubSeq(ds, 1, Len(ds) - 1)) * 10 + DigitVal(ds[Len(ds)])

\* s.split(sep)[0]: the part of s before the first sep, all of s without one
RECURSIVE BeforeFirst(_, _)
BeforeFirst(s, sep) ==
    IF s = <<>> \/ Head(s) = sep THEN <<>>
    ELSE <<Head(s)>> \o BeforeFirst(Tail(s), sep)

RECURSIVE LStrip(_)
LStrip(s) == IF s # <<>> /\ Head(s) \in Whitespace THEN LStrip(Tail(s)) ELSE s

RECURSIVE RStrip(_)
RStrip(s) ==
    IF s # <<>> /\ s[Len(s)] \in Whitespace
    THEN RStrip(SubSeq(s, 1, Len(s) - 1)) ELSE s

\* s.strip()
Strip(s) == RStrip(LStrip(s))

\* the first run of non-whitespace characters of an lstripped text
RECURSIVE FirstWord(_)
FirstWord(s) ==
    IF s = <<>> \/ Head(s) \in Whitespace THEN <<>>
    ELSE <<Head(s)>> \o FirstWord(Tail(s))

\* s.split()[0]: IndexError when s holds no non-whitespace character
SplitFirst(s) ==
    IF LStrip(s) = <<>> THEN Raise("IndexError") ELSE Ret(FirstWord(LStrip(s)))

\* sub in s
Contains(s, sub) ==
    \E i \in 0..(Len(s) - Len(sub)) : SubSeq(s, i + 1, i + Len(sub)) = sub

\* s.startswith(p)
StartsWith(s, p) == Len(p) <= Len(s) /\ SubSeq(s, 1, Len(p)) = p

\* s.replace(old, "") read left to right, for a non-empty old
RECURSIVE Remove(_, _)
Remove(s, old) ==
    IF Len(s) < Len(old) \/ old = <<>> THEN s
    ELSE IF SubSeq(s, 1, Len(old)) = old
         THEN Remove(SubSeq(s, Len(old) + 1, Len(s)), old)
         ELSE <<Head(s)>> \o Remove(Tail(s), old)

\* s.replace(old, new) for a one-character old
RECURSIVE ReplaceChar(_, _, _)
ReplaceChar(s, old, new) ==
    IF s = <<>> THEN <<>>
    ELSE (IF Head(s) = old THEN new ELSE <<Head(s)>>) \o ReplaceChar(Tail(s), old, new)

\* ---------------------------------------------------- price normalizers

\* a mutation of normalizar_precio: int() is handed the digits with no "or 0"
normalizar_precio_sin_cero(raw_price) ==
    IF ~Truthy(raw_price) THEN Ret(0)
    ELSE IF OnlyDigits(raw_price) = <<>> THEN Raise("ValueError")
    ELSE Ret(IntOf(OnlyDigits(raw_price)))

normalizar_precio(raw_price) ==
    IF ~Truthy(raw_price) THEN Ret(0)
    ELSE Ret(IntOf(OnlyDigits(raw_price)))

\* a mutation of normalizar_precio_cafam: the text is not cut at the comma
normalizar_precio_cafam_entero(raw_price) ==
    IF raw_price = None THEN Raise("AttributeError")
    ELSE Ret(IntOf(OnlyDigits(raw_price)))

normalizar_precio_cafam(raw_price) ==
    IF raw_price = None THEN Raise("AttributeError")
    ELSE Ret(IntOf(OnlyDigits(BeforeFirst(raw_price, ","))))

\* ---------------------------------------------------------- name matcher

UpperLetters == <<"A", "B", "C", "D", "E", "F", "G", "H", "I", "J", "K", "L", "M",
                  "N", "O", "P", "Q", "R", "S", "T", "U", "V", "W", "X", "Y", "Z",
                  "O'", "E'">>
LowerLetters == <<"a", "b", "c", "d", "e", "f", "g", "h", "i", "j", "k", "l", "m",
                  "n", "o", "p", "q", "r", "s", "t", "u", "v", "w", "x", "y", "z",
                  "o'", "e'">>

LowerOf ==
    [u \in {UpperLetters[i] : i \in 1..Len(UpperLetters)} |->
        LowerLetters[CHOOSE i \in 1..Len(UpperLetters) : UpperLetters[i] = u]]

\* str.lower() on one character
LowerChar(c) == IF c \in DOMAIN LowerOf THEN LowerOf[c] ELSE c

\* unicodedata.normalize('NFKD', c) on one character
NfkdChar(c) ==
    CASE c = "o'" -> <<"o", "^">>
      [] c = "e'" -> <<"e", "^">>
      [] c = "O'" -> <<"O", "^">>
      [] OTHER -> <<c>>

\* unicodedata.combining(c) != 0
Combining(c) == c = "^"

RECURSIVE Nfkd(_)
Nfkd(s) == IF s = <<>> THEN <<>> ELSE NfkdChar(Head(s)) \o Nfkd(Tail(s))

Lower(s) == [i \in 1..Len(s) |-> LowerChar(s[i])]

NotCombining(c) == ~Combining(c)

normalizar_texto_para_comparacion(texto) ==
    IF ~Truthy(texto) THEN <<>>
    ELSE ReplaceChar(Lower(SelectSeq(Nfkd(texto), NotCombining)), " ", <<>>)

\* a mutation of validar_nombre_producto: the keyword must open the name
validar_nombre_producto_prefijo(nombre_producto, keyword) ==
    IF ~Truthy(nombre_producto) \/ ~Truthy(keyword) THEN FALSE
    ELSE StartsWith(normalizar_texto_para_comparacion(nombre_producto),
                    normalizar_texto_para_comparacion(keyword))

validar_nombre_producto(nombre_producto, keyword) ==
    IF ~Truthy(nombre_producto) \/ ~Truthy(keyword) THEN FALSE
    ELSE Contains(normalizar_texto_para_comparacion(nombre_producto),
                  normalizar_texto_para_comparacion(keyword))

\* ------------------------------------------------------------ elements

\* The page-fetching collaborator's answer for one element holding the located
\* sub-elements of a selector-driven site: each locator's text, or None when
\* find_element raises NoSuchElementException.
SelEl(n, m, o, s, l) ==
    [nombre |-> n, marca |-> m, p_online |-> o, p_sale |-> s, p_normal |-> l]

\* A Cruz Verde card: the texts of its div, p and span descendants in document
\* order, and the text of its div.italic descendant (None when there is none).
CvEl(d, p, s, i) == [divs |-> d, ps |-> p, spans |-> s, italic |-> i]

_safe_find(element, locator) ==
    IF element[locator] = None THEN None ELSE Strip(element[locator])

\* the dict an extractor returns; EmptyDatos is {}
Datos(n, m, o, l) ==
    [has |-> TRUE, nombre |-> n, marca |-> m, p_online |-> o, p_normal |-> l]

EmptyDatos ==
    [has |-> FALSE, nombre |-> None, marca |-> None, p_online |-> None,
     p_normal |-> None]

\* marca = nombre.split()[0] if nombre != "N/A" else "N/A"
MarcaDeNombre(nombre) == IF nombre # NA THEN SplitFirst(nombre) ELSE Ret(NA)

\* ----------------------------------------------------------- extractors

extraer_datos_olimpica(driver) ==
    LET nombre == OrElse(_safe_find(driver, "nombre"), NA)
        marca == OrElse(_safe_find(driver, "marca"), NA)
        o0 == _safe_find(driver, "p_online")
        n0 == _safe_find(driver, "p_normal")
        o1 == IF ~Truthy(o0) THEN n0 ELSE o0
        n1 == IF ~Truthy(n0) THEN o1 ELSE n0
    IN Ret(Datos(nombre, marca, OrElse(o1, ZeroText), OrElse(n1, ZeroText)))

extraer_datos_pasteur(item) ==
    LET nombre == OrElse(_safe_find(item, "nombre"), NA)
        marca == MarcaDeNombre(nombre)
        o0 == _safe_find(item, "p_online")
        n0 == _safe_find(item, "p_normal")
        n1 == IF ~Truthy(n0) THEN o0 ELSE n0
    IN IF marca.exc # "none" THEN marca
       ELSE Ret(Datos(nombre, marca.val, OrElse(o0, ZeroText), OrElse(n1, ZeroText)))

\* the name-candidate threshold: len(text) > 10
NameMinLen == 10
\* the price-candidate threshold: at least 4 digits
MinPriceDigits == 4

Dollar == <<"$">>
NormalWord == <<"N", "o", "r", "m", "a", "l">>

\* max(candidatos, key=len): the first candidate of greatest length
RECURSIVE MaxByLen(_)
MaxByLen(cs) ==
    IF Len(cs) = 1 THEN cs[1]
    ELSE LET rest == MaxByLen(Tail(cs))
         IN IF Len(cs[1]) >= Len(rest) THEN cs[1] ELSE rest

\* the price loop of extraer_datos_cruzverde over the remaining elements
RECURSIVE CvPrecios(_, _, _)
CvPrecios(elements, p_online, p_normal) ==
    IF elements = <<>> THEN [p_online |-> p_online, p_normal |-> p_normal]
    ELSE LET text == Strip(Head(elements))
             hit == Contains(text, Dollar) /\ Len(OnlyDigits(text)) >= MinPriceDigits
         IN IF hit /\ Contains(text, NormalWord)
            THEN CvPrecios(Tail(elements), p_online, text)
            ELSE IF hit /\ p_online = ZeroText
                 THEN CvPrecios(Tail(elements), text, p_normal)
                 ELSE CvPrecios(Tail(elements), p_online, p_normal)

CvCandidato(t) ==
    Strip(t) # <<>> /\ Len(Strip(t)) > NameMinLen /\ ~Contains(t, Dollar)

extraer_datos_cruzverde(item) ==
    LET elements == item.divs \o item.ps
        kept == SelectSeq(elements, CvCandidato)
        candidatos_nombre == [i \in 1..Len(kept) |-> Strip(kept[i])]
        nombre_bruto == IF candidatos_nombre # <<>> THEN MaxByLen(candidatos_nombre) ELSE NA
        fabricante == IF item.italic = None THEN NA ELSE Strip(item.italic)
        nombre_limpio == Strip(ReplaceChar(Remove(nombre_bruto, fabricante), "\n", <<" ">>))
        marca == IF nombre_limpio # NA THEN SplitFirst(nombre_limpio) ELSE Ret(NA)
        precios == CvPrecios(item.spans \o item.ps, ZeroText, ZeroText)
    IN IF marca.exc # "none" THEN marca
       ELSE Ret(Datos(nombre_limpio, marca.val, precios.p_online, precios.p_normal))

extraer_datos_farmatodo(item) ==
    Ret(Datos(OrElse(_safe_find(item, "nombre"), NA),
              OrElse(_safe_find(item, "marca"), NA),
              OrElse(_safe_find(item, "p_online"), ZeroText),
              OrElse(_safe_find(item, "p_normal"), ZeroText)))

extraer_datos_larebaja(driver) ==
    LET p_online == OrElse(_safe_find(driver, "p_online"), ZeroText)
    IN Ret(Datos(OrElse(_safe_find(driver, "nombre"), NA),
                 OrElse(_safe_find(driver, "marca"), NA),
                 p_online,
                 OrElse(_safe_find(driver, "p_normal"), p_online)))

extraer_datos_locatel(driver) ==
    LET nombre == OrElse(_safe_find(driver, "nombre"), NA)
        marca == MarcaDeNombre(nombre)
        p_online == OrElse(_safe_find(driver, "p_online"), ZeroText)
    IN IF marca.exc # "none" THEN marca
       ELSE Ret(Datos(nombre, marca.val, p_online,
                      OrElse(_safe_find(driver, "p_normal"), p_online)))

extraer_datos_colsubsidio(item) ==
    LET nombre == OrElse(_safe_find(item, "nombre"), NA)
        marca == MarcaDeNombre(nombre)
        p_online == OrElse(_safe_find(item, "p_online"), ZeroText)
        p_normal_raw == _safe_find(item, "p_normal")
    IN IF marca.exc # "none" THEN marca
       ELSE Ret(Datos(nombre, marca.val, p_online,
                      IF Truthy(p_normal_raw) THEN p_normal_raw ELSE p_online))

\* a mutation of extraer_datos_cafam: the secondary online-price selector is
\* never tried
extraer_datos_cafam_sin_secundario(item) ==
    LET nombre == OrElse(_safe_find(item, "nombre"), NA)
        marca == MarcaDeNombre(nombre)
        p_online_raw == _safe_find(item, "p_online")
        p_normal_raw == _safe_find(item, "p_normal")
        p_online == IF Truthy(p_online_raw) THEN p_online_raw
                    ELSE OrElse(p_normal_raw, ZeroText)
        p_normal == IF Truthy(p_normal_raw) THEN p_normal_raw ELSE p_online
    IN IF marca.exc # "none" THEN marca
       ELSE Ret(Datos(nombre, marca.val, p_online, p_normal))

extraer_datos_cafam(item) ==
    LET nombre == OrElse(_safe_find(item, "nombre"), NA)
        marca == MarcaDeNombre(nombre)
        first == _safe_find(item, "p_online")
        p_online_raw == IF Truthy(first) THEN first ELSE _safe_find(item, "p_sale")
        p_normal_raw == _safe_find(item, "p_normal")
        p_online == IF Truthy(p_online_raw) THEN p_online_raw
                    ELSE OrElse(p_normal_raw, ZeroText)
        p_normal == IF Truthy(p_normal_raw) THEN p_normal_raw ELSE p_online
    IN IF marca.exc # "none" THEN marca
       ELSE Ret(Datos(nombre, marca.val, p_online, p_normal))

\* ------------------------------------------------------------ CSV sink

Header ==
    [kind |-> "header",
     cells |-> <<"Farmacia", "EAN", "Product Name", "Brand", "Sale Price",
                 "Old Price", "Stock", "Fecha">>]

\* fecha_hoy_fmt(): one calendar date for the whole run
fecha_hoy_fmt == "dd/mm/yyyy"

Fila(pagina, ean, nombre, marca, p_online, p_normal, stock) ==
    [kind |-> "row",
     cells |-> <<pagina, ean, nombre, marca, p_online, p_normal, stock,
                 fecha_hoy_fmt>>]

\* a mutation of write_to_csv: the header is written before every row
write_to_csv_encabeza(file, fila) == file \o <<Header, fila>>

\* The file is the sequence of its lines; an absent file and an empty one are <<>>.
write_to_csv(file, fila) ==
    LET file_exists == Len(file) > 0
    IN IF ~file_exists THEN <<Header, fila>> ELSE Append(file, fila)

NoDisponible == <<"N", "o", " ", "d", "i", "s", "p", "o", "n", "i", "b", "l", "e">>
NombreNoCoincide ==
    NoDisponible \o <<" ", "(", "N", "o", "m", "b", "r", "e", " ", "n", "o", " ",
                      "c", "o", "i", "n", "c", "i", "d", "e", ")">>

\* a mutation of FilaNoDisponible: the row is marked in stock
FilaNoDisponibleEnStock(pagina, ean) ==
    Fila(pagina, ean, NoDisponible, NA, 0, 0, "Disponible")

\* the row of a pair with no extraction, or whose wait timed out
FilaNoDisponible(pagina, ean) ==
    Fila(pagina, ean, NoDisponible, NA, 0, 0, "No Disponible")

\* the row of an extraction whose name does not hold the keyword
FilaNoCoincide(pagina, ean) ==
    Fila(pagina, ean, NombreNoCoincide, NA, 0, 0, "No Disponible")

\* a mutation of FilaPrecioCero: the placeholder name replaces the extracted one
FilaPrecioCeroSinNombre(pagina, ean, nombre) ==
    Fila(pagina, ean, NoDisponible, NA, 0, 0, "No Disponible")

\* the row of a validated extraction whose online price is 0
FilaPrecioCero(pagina, ean, nombre) ==
    Fila(pagina, ean, nombre, NA, 0, 0, "No Disponible")

\* rows of the file, the header apart
NRows(f) == IF Len(f) = 0 THEN 0 ELSE Len(f) - 1

\* ------------------------------------------------------------ dispatcher

DirectSites == {"larebaja_co", "locatel_co", "olimpica_co"}

\* What the strategy branch hands on: the exception that left it (or "none"),
\* the dict datos, the indices of the result items whose name was examined and
\* the index of the item the full extractor ran on (0 for none).
Fetched(r, examined, extracted) ==
    [exc |-> r.exc,
     datos |-> IF r.exc = "none" THEN r.val ELSE EmptyDatos,
     examined |-> examined,
     extracted |-> IF r.exc = "none" THEN extracted ELSE 0]

Anemidox == <<"a", "n", "e", "m", "i", "d", "o", "x">>

\* The test of the Pasteur loop: the Name Matcher in price_scrapper4.py,
\* nombre_temp.lower().startswith("anemidox") in price_scrapper_co.py.
PasteurCoincide(entry, nombre_temp, keyword) ==
    IF entry = "co"
    THEN Truthy(nombre_temp) /\ StartsWith(Lower(nombre_temp), Anemidox)
    ELSE validar_nombre_producto(nombre_temp, keyword)

\* a mutation of PasteurScan: the loop has no break, the last match wins
RECURSIVE PasteurScanNoBreak(_, _, _, _, _)
PasteurScanNoBreak(entry, all_products, keyword, i, examined) ==
    IF i > Len(all_products) THEN Fetched(Ret(EmptyDatos), examined, 0)
    ELSE LET item == all_products[i]
             nombre_temp == _safe_find(item, "nombre")
             rest == PasteurScanNoBreak(entry, all_products, keyword, i + 1,
                                        Append(examined, i))
         IN IF PasteurCoincide(entry, nombre_temp, keyword) /\ rest.extracted = 0
            THEN Fetched(extraer_datos_pasteur(item), rest.examined, i)
            ELSE rest

\* the Pasteur loop over all_products from item i on
RECURSIVE PasteurScan(_, _, _, _, _)
PasteurScan(entry, all_products, keyword, i, examined) ==
    IF i > Len(all_products) THEN Fetched(Ret(EmptyDatos), examined, 0)
    ELSE LET item == all_products[i]
             nombre_temp == _safe_find(item, "nombre")
         IN IF PasteurCoincide(entry, nombre_temp, keyword)
            THEN Fetched(extraer_datos_pasteur(item), Append(examined, i), i)
            ELSE PasteurScan(entry, all_products, keyword, i + 1, Append(examined, i))

\* a mutation of ListFirstItem: Farmatodo's fallback selector is tried first
ListFirstItemRespaldoPrimero(pagina, page) ==
    IF pagina = "farmatodo_co"
    THEN IF page.fallback = "ok" THEN Ret(2)
         ELSE IF page.wait = "ok" THEN Ret(1) ELSE Raise("TimeoutException")
    ELSE IF pagina = "cafam_co"
         THEN IF page.wait # "ok" THEN Raise("TimeoutException")
              ELSE IF ~page.found THEN Raise("NoSuchElementException")
              ELSE Ret(1)
         ELSE IF page.wait # "ok" THEN Raise("TimeoutException") ELSE Ret(1)

\* the container lookup of the list-first sites: the index in page.items of
\* the container found
ListFirstItem(pagina, page) ==
    IF pagina = "farmatodo_co"
    THEN IF page.wait = "ok" THEN Ret(1)
         ELSE IF page.fallback = "ok" THEN Ret(2) ELSE Raise("TimeoutException")
    ELSE IF pagina = "cafam_co"
         THEN IF page.wait # "ok" THEN Raise("TimeoutException")
              ELSE IF ~page.found THEN Raise("NoSuchElementException")
              ELSE Ret(1)
         ELSE IF page.wait # "ok" THEN Raise("TimeoutException") ELSE Ret(1)

\* the strategy branch of scrapper_general
Strategy(entry, pagina, keyword, page) ==
    IF pagina \in DirectSites
    THEN IF page.wait # "ok" THEN Fetched(Raise("TimeoutException"), <<>>, 0)
         ELSE Fetched(CASE pagina = "larebaja_co" -> extraer_datos_larebaja(page.items[1])
                        [] pagina = "locatel_co" -> extraer_datos_locatel(page.items[1])
                        [] pagina = "olimpica_co" -> extraer_datos_olimpica(page.items[1]),
                      <<>>, 1)
    ELSE IF pagina = "pasteur_co"
    THEN IF page.wait # "ok" THEN Fetched(Raise("TimeoutException"), <<>>, 0)
         ELSE PasteurScan(entry, page.items, keyword, 1, <<>>)
    ELSE LET item == ListFirstItem(pagina, page)
         IN IF item.exc # "none" THEN Fetched(item, <<>>, 0)
            ELSE Fetched(CASE pagina = "cruzverde_co" -> extraer_datos_cruzverde(page.items[item.val])
                           [] pagina = "farmatodo_co" -> extraer_datos_farmatodo(page.items[item.val])
                           [] pagina = "colsubsidio_co" -> extraer_datos_colsubsidio(page.items[item.val])
                           [] pagina = "cafam_co" -> extraer_datos_cafam(page.items[item.val]),
                         <<>>, item.val)

\* the normalizer variant by site
NormalizarPara(pagina, raw) ==
    IF pagina = "cafam_co" THEN normalizar_precio_cafam(raw) ELSE normalizar_precio(raw)

\* a mutation of AjustarPrecios: the swap rule is left out
AjustarPreciosSinSwap(o, l) ==
    [p_online |-> o, p_normal |-> IF o > 0 /\ l = 0 THEN o ELSE l]

\* a mutation of AjustarPrecios: the zero-fill rule is left out
AjustarPreciosSinRelleno(o, l) ==
    IF o > l /\ l > 0 THEN [p_online |-> l, p_normal |-> o]
    ELSE [p_online |-> o, p_normal |-> l]

\* a mutation of AjustarPrecios: the swap test is inverted
AjustarPreciosAlReves(o, l) ==
    LET l1 == IF o > 0 /\ l = 0 THEN o ELSE l
    IN IF o < l1 /\ l1 > 0 THEN [p_online |-> l1, p_normal |-> o]
       ELSE [p_online |-> o, p_normal |-> l1]

\* zero-fill, then swap
AjustarPrecios(o, l) ==
    LET l1 == IF o > 0 /\ l = 0 THEN o ELSE l
    IN IF o > l1 /\ l1 > 0 THEN [p_online |-> l1, p_normal |-> o]
       ELSE [p_online |-> o, p_normal |-> l1]

\* stock = "Disponible" if p_online > 0 else "No Disponible"
Stock(p) == IF p.p_online > 0 THEN "Disponible" ELSE "No Disponible"

\* The outcome of one call of scrapper_general: the exception that escaped it
\* (or "none"), the file after it, the screenshots it saved, the path it took
\* and what the strategy branch had handed on.
Outcome(exc, file, shots, path, f) ==
    [exc |-> exc, file |-> file, shots |-> shots, path |-> path,
     datos |-> f.datos, examined |-> f.examined, extracted |-> f.extracted]

NothingFetched == Fetched(Ret(EmptyDatos), <<>>, 0)

\* a mutation of NombreValido: only the keyword-filtered site is validated
NombreValidoSoloPasteur(pagina, nombre, keyword) ==
    pagina = "pasteur_co" => validar_nombre_producto(nombre, keyword)

\* the mandatory check of the extracted name, the same for every site
NombreValido(pagina, nombre, keyword) == validar_nombre_producto(nombre, keyword)

\* the record builder of price_scrapper4.scrapper_general
Procesar(pagina, ean_producto, keyword, f, file) ==
    IF f.datos.has
    THEN LET nombre == f.datos.nombre
         IN IF NombreValido(pagina, nombre, keyword)
            THEN LET o == NormalizarPara(pagina, f.datos.p_online)
                     l == NormalizarPara(pagina, f.datos.p_normal)
                 IN IF o.exc # "none" THEN Outcome(o.exc, file, <<>>, "raised", f)
                    ELSE IF l.exc # "none" THEN Outcome(l.exc, file, <<>>, "raised", f)
                    ELSE LET p == AjustarPrecios(o.val, l.val)
                         IN IF p.p_online > 0
                            THEN Outcome("none",
                                     write_to_csv(file, Fila(pagina, ean_producto, nombre,
                                         f.datos.marca, p.p_online, p.p_normal, Stock(p))),
                                     <<>>, "validated", f)
                            ELSE Outcome("none",
                                     write_to_csv(file, FilaPrecioCero(pagina, ean_producto, nombre)),
                                     <<>>, "zero", f)
            ELSE Outcome("none", write_to_csv(file, FilaNoCoincide(pagina, ean_producto)),
                         <<>>, "mismatch", f)
    ELSE Outcome("none", write_to_csv(file, FilaNoDisponible(pagina, ean_producto)),
                 <<>>, "notfound", f)

\* the body of the try block of price_scrapper4.scrapper_general
TryBody(pagina, ean_producto, keyword, page, file) ==
    IF page.get = "timeout" \/ (page.get = "ok" /\ page.body = "timeout")
    THEN Outcome("TimeoutException", file, <<>>, "raised", NothingFetched)
    ELSE IF page.get # "ok"
    THEN Outcome("WebDriverException", file, <<>>, "raised", NothingFetched)
    ELSE LET f == Strategy("p4", pagina, keyword, page)
         IN IF f.exc # "none" THEN Outcome(f.exc, file, <<>>, "raised", f)
            ELSE Procesar(pagina, ean_producto, keyword, f, file)

\* a mutation of scrapper_general: the timeout handler writes no row
scrapper_general_drop(pagina, ean_producto, keyword, page, file) ==
    LET r == TryBody(pagina, ean_producto, keyword, page, file)
    IN IF r.exc = "TimeoutException"
       THEN [r EXCEPT !.exc = "none", !.shots = <<<<pagina, ean_producto>>>>,
                      !.path = "timeout"]
       ELSE r

\* price_scrapper4.scrapper_general; handle_popups swallows every exception it
\* meets and touches neither the file nor datos, so it has no part here.
scrapper_general(pagina, ean_producto, keyword, page, file) ==
    LET r == TryBody(pagina, ean_producto, keyword, page, file)
    IN IF r.exc = "TimeoutException"
       THEN [r EXCEPT !.exc = "none",
                      !.shots = <<<<pagina, ean_producto>>>>,
                      !.file = write_to_csv(file, FilaNoDisponible(pagina, ean_producto)),
                      !.path = "timeout"]
       ELSE r

\* the body of the try block of price_scrapper_co.scrapper_general
TryBodyCo(pagina, ean_producto, page, file) ==
    IF page.get = "timeout" \/ (page.get = "ok" /\ page.body = "timeout")
    THEN Outcome("TimeoutException", file, <<>>, "raised", NothingFetched)
    ELSE IF page.get # "ok"
    THEN Outcome("WebDriverException", file, <<>>, "raised", NothingFetched)
    ELSE LET f == Strategy("co", pagina, Anemidox, page)
         IN IF f.exc # "none" THEN Outcome(f.exc, file, <<>>, "raised", f)
            ELSE IF pagina = "pasteur_co" /\ ~f.datos.has
            THEN Outcome("none", file, <<<<pagina, "no_encontrado">>>>, "dropped", f)
            ELSE LET nombre == f.datos.nombre
                     o == NormalizarPara(pagina, f.datos.p_online)
                     l == NormalizarPara(pagina, f.datos.p_normal)
                 IN IF o.exc # "none" THEN Outcome(o.exc, file, <<>>, "raised", f)
                    ELSE IF l.exc # "none" THEN Outcome(l.exc, file, <<>>, "raised", f)
                    ELSE LET p == AjustarPrecios(o.val, l.val)
                         IN IF Truthy(nombre) /\ nombre # NA /\ p.p_online > 0
                            THEN Outcome("none",
                                     write_to_csv(file, Fila(pagina, ean_producto, nombre,
                                         f.datos.marca, p.p_online, p.p_normal, Stock(p))),
                                     <<>>, "validated", f)
                            ELSE Outcome("none", file, <<>>, "dropped", f)

\* price_scrapper_co.scrapper_general
scrapper_general_co(pagina, ean_producto, page, file) ==
    LET r == TryBodyCo(pagina, ean_producto, page, file)
    IN IF r.exc = "TimeoutException"
       THEN [r EXCEPT !.exc = "none", !.shots = <<<<pagina, "error">>>>,
                      !.path = "timeout"]
       ELSE r

\* ------------------------------------------------- search parameters

FARMACIAS_A_BUSCAR ==
    <<"cruzverde_co", "farmatodo_co", "larebaja_co", "locatel_co",
      "colsubsidio_co", "cafam_co", "olimpica_co", "pasteur_co">>

EAN_A_BUSCAR == "7702418006430"

KwCebion == <<"c", "e", "b", "i", "o", "n">>
KwBion3 == <<"b", "i", "o", "n", " ", "3">>

\* Catalogs cut from PRODUCTOS_A_BUSCAR, in the dict's order.
Catalogos ==
    { <<[ean |-> "7702418000100", keyword |-> KwCebion]>>,
      <<[ean |-> "4054839106644", keyword |-> KwBion3],
        [ean |-> "7702418000100", keyword |-> KwCebion]>> }

CatalogoCo == <<[ean |-> EAN_A_BUSCAR, keyword |-> Anemidox]>>

\* the most (product, site) pairs of one run
MaxPairs == 4

\* the most result items of a Pasteur page
MaxItems == 2

\* the longest raw price text drawn from PriceChars
MaxPriceLen == 2

\* the runs of consecutive sites of FARMACIAS_A_BUSCAR of at most n sites
Ventanas(n) ==
    { SubSeq(FARMACIAS_A_BUSCAR, a, b) :
        <<a, b>> \in { w \in (1..Len(FARMACIAS_A_BUSCAR)) \X (1..Len(FARMACIAS_A_BUSCAR)) :
                         w[1] <= w[2] /\ w[2] - w[1] < n } }

\* --------------------------------------------- what the sites may serve

\* "Cebión Vitamina C"
NameCebion ==
    <<"C", "e", "b", "i", "o'", "n", " ", "V", "i", "t", "a", "m", "i", "n", "a",
      " ", "C">>
\* "Vick VapoRub"
NameVick == <<"V", "i", "c", "k", " ", "V", "a", "p", "o", "R", "u", "b">>
\* "ANEMIDOX 30 Caps"
NameAnemidox ==
    <<"A", "N", "E", "M", "I", "D", "O", "X", " ", "3", "0", " ", "C", "a", "p", "s">>

BrandMK == <<"M", "K">>
\* "Laboratorios MK"
BrandLab ==
    <<"L", "a", "b", "o", "r", "a", "t", "o", "r", "i", "o", "s", " ", "M", "K">>

\* "$20.000" and "$ 30.000"
P20 == <<"$", "2", "0", ".", "0", "0", "0">>
P30 == <<"$", " ", "3", "0", ".", "0", "0", "0">>
\* "45,670 aprox"
P45 == <<"4", "5", ",", "6", "7", "0", " ", "a", "p", "r", "o", "x">>

PriceChars == {"$", "0", "1", ","}

RECURSIVE TextsUpTo(_, _)
TextsUpTo(chars, n) ==
    IF n = 0 THEN {<<>>}
    ELSE LET shorter == TextsUpTo(chars, n - 1)
         IN shorter \cup { Append(t, c) : t \in shorter, c \in chars }

Opt(S) == S \cup {None}

\* The texts the sites serve: names, brands, manufacturers and prices that
\* vary together, and the prices that vary under the one name main.
RunTexts ==
    [names |-> {NameCebion, NameAnemidox}, brands |-> {BrandMK},
     fabs |-> {BrandMK}, prices |-> {P30}, sales |-> {P20},
     main |-> NameCebion, wide |-> {}]

WideTexts ==
    [names |-> {NameCebion, NameVick}, brands |-> {BrandMK},
     fabs |-> {BrandMK, BrandLab}, prices |-> {P20, P30}, sales |-> {P20},
     main |-> NameCebion,
     wide |-> TextsUpTo(PriceChars, MaxPriceLen) \cup {P20, P30, P45}]

\* A Cruz Verde card showing name n over manufacturer fab, online price o in
\* a span and list price l in a paragraph that starts with the word Normal.
CvCard(n, fab, o, l) ==
    CvEl((IF n = None THEN <<>>
          ELSE <<n \o (IF fab = None THEN <<>> ELSE <<"\n">> \o fab)>>)
           \o (IF fab = None THEN <<>> ELSE <<fab>>),
         IF l = None THEN <<>> ELSE <<NormalWord \o <<" ">> \o l>>,
         IF o = None THEN <<>> ELSE <<o>>,
         fab)

\* the elements of a site over names N, brands B, manufacturers F, prices P
\* and Cafam sale prices S
Familia(pagina, N, B, F, P, S) ==
    CASE pagina = "cruzverde_co" ->
           { CvCard(n, f, o, l) : n \in N, f \in F, o \in P, l \in P }
      [] pagina \in {"farmatodo_co", "larebaja_co", "olimpica_co"} ->
           { SelEl(n, m, o, None, l) : n \in N, m \in B, o \in P, l \in P }
      [] pagina = "cafam_co" ->
           { SelEl(n, None, o, s, l) : n \in N, o \in P, s \in S, l \in P }
      [] OTHER ->
           { SelEl(n, None, o, None, l) : n \in N, o \in P, l \in P }

Elementos(pagina, T) ==
    Familia(pagina, Opt(T.names), Opt(T.brands), Opt(T.fabs), Opt(T.prices),
            Opt(T.sales))
    \cup Familia(pagina, {T.main}, {BrandMK}, {BrandMK}, Opt(T.wide), Opt(T.sales))

\* the result items of a Pasteur page of several items: each with both prices
ItemsPasteur(T) == { SelEl(n, None, P20, None, P30) : n \in Opt(T.names) }

RECURSIVE SeqsUpTo(_, _)
SeqsUpTo(S, n) ==
    IF n = 0 THEN {<<>>}
    ELSE LET shorter == SeqsUpTo(S, n - 1)
         IN shorter \cup { Append(q, x) : q \in shorter, x \in S }

\* The collaborator's answers for one dispatch: driver.get ("ok", "timeout",
\* "error" for any other WebDriverException), the wait for body, the
\* strategy's wait, Farmatodo's fallback wait, Cafam's container lookup, and
\* the elements found.
Page(get, body, wait, fallback, found, items) ==
    [get |-> get, body |-> body, wait |-> wait, fallback |-> fallback,
     found |-> found, items |-> items]

\* the element Farmatodo's other container selector would find
OtroContenedor == SelEl(NameVick, None, P30, None, None)

Pages(pagina, T) ==
    { Page("timeout", "ok", "ok", "ok", TRUE, <<>>),
      Page("error", "ok", "ok", "ok", TRUE, <<>>),
      Page("ok", "timeout", "ok", "ok", TRUE, <<>>),
      Page("ok", "ok", "timeout", "timeout", TRUE, <<>>) }
    \cup
    CASE pagina = "farmatodo_co" ->
           { Page("ok", "ok", "ok", "ok", TRUE, <<e, OtroContenedor>>) :
               e \in Elementos(pagina, T) }
           \cup { Page("ok", "ok", "timeout", "ok", TRUE, <<OtroContenedor, e>>) :
               e \in Elementos(pagina, T) }
           \cup { Page("ok", "ok", "ok", "timeout", TRUE, <<e>>) :
               e \in Elementos(pagina, T) }
      [] pagina = "cafam_co" ->
           { Page("ok", "ok", "ok", "ok", TRUE, <<e>>) : e \in Elementos(pagina, T) }
           \cup { Page("ok", "ok", "ok", "ok", FALSE, <<>>) }
      [] pagina = "pasteur_co" ->
           { Page("ok", "ok", "ok", "ok", TRUE, q) :
               q \in SeqsUpTo(ItemsPasteur(T), MaxItems)
                       \cup { <<e>> : e \in Elementos(pagina, T) } }
      [] OTHER ->
           { Page("ok", "ok", "ok", "ok", TRUE, <<e>>) : e \in Elementos(pagina, T) }


\* ------------------------------------------------------------- the run

VARIABLES
    entry,       \* "p4": price_scrapper4.py; "co": price_scrapper_co.py
    productos,   \* the (ean, keyword) pairs to search, in loop order
    farmacias,   \* the sites to search, in loop order
    pc,          \* where __main__ is
    qi, si,      \* the product and the site of the next dispatch
    session,     \* the browser session: "none", "open", "closed"
    quits,       \* calls of driver.quit() so far
    late,        \* a dispatch has used the session after driver.quit()
    file,        \* the lines of the CSV file
    last,        \* the last dispatch: its arguments, the page and the outcome
    call         \* the last call of a utility on its own: arguments and result

vars == <<entry, productos, farmacias, pc, qi, si, session, quits, late, file, last,
          call>>

config == <<entry, productos, farmacias>>

NoLast ==
    [pagina |-> "", ean |-> "", keyword |-> <<>>, exc |-> "none", path |-> "",
     shots |-> <<>>, datos |-> EmptyDatos, examined |-> <<>>, extracted |-> 0,
     get |-> "", body |-> "", wait |-> "", fallback |-> "", found |-> FALSE,
     nombres |-> <<>>, k |-> 0, before |-> 0, after |-> 0]

\* no utility has been called on its own
NoCall == [fn |-> "", args |-> <<>>, out |-> [exc |-> "none", val |-> <<>>]]

\* a file left by an earlier run
ArchivoViejo ==
    <<Header, Fila("pasteur_co", EAN_A_BUSCAR, NameAnemidox, <<"A">>, 1, 2, "Disponible")>>

InitWith(entries, catalogos, ventanas) ==
    /\ entry \in entries
    /\ productos \in (IF entry = "co" THEN {CatalogoCo} ELSE catalogos)
    /\ farmacias \in { v \in ventanas : Len(v) * Len(productos) <= MaxPairs }
    /\ pc = "start"
    /\ qi = 1 /\ si = 1
    /\ session = "none" /\ quits = 0 /\ late = FALSE
    /\ file \in {<<>>, ArchivoViejo}
    /\ last = NoLast
    /\ call = NoCall

Init == InitWith({"p4", "co"}, Catalogos, Ventanas(MaxPairs))

\* src price_scrapper4.py lines 444-450: acquire the session, reset the file
Start ==
    /\ pc = "start"
    /\ session' = "open"
    /\ file' = <<>>
    /\ pc' = "loop"
    /\ UNCHANGED <<config, call, qi, si, quits, late, last>>

Call(page) ==
    IF entry = "co"
    THEN scrapper_general_co(farmacias[si], productos[qi].ean, page, file)
    ELSE scrapper_general(farmacias[si], productos[qi].ean, productos[qi].keyword,
                          page, file)

\* names of a page's items as _safe_find reads them
Nombres(page) == [i \in 1..Len(page.items) |->
                    IF "nombre" \in DOMAIN page.items[i]
                    THEN _safe_find(page.items[i], "nombre") ELSE None]

\* one iteration of the nested loop: one call of scrapper_general
Dispatch(textos) ==
    /\ pc = "loop"
    /\ qi <= Len(productos)
    /\ \E page \in Pages(farmacias[si], textos) :
         \E r \in {Call(page)} :
            /\ file' = r.file
            /\ last' = [pagina |-> farmacias[si], ean |-> productos[qi].ean,
                        keyword |-> productos[qi].keyword, exc |-> r.exc,
                        path |-> r.path, shots |-> r.shots, datos |-> r.datos,
                        examined |-> r.examined, extracted |-> r.extracted,
                        get |-> page.get, body |-> page.body, wait |-> page.wait,
                        fallback |-> page.fallback, found |-> page.found,
                        nombres |-> Nombres(page),
                        k |-> (qi - 1) * Len(farmacias) + si,
                        before |-> NRows(file), after |-> NRows(r.file)]
            /\ pc' = IF r.exc # "none" THEN "except" ELSE "loop"
            /\ IF r.exc # "none" THEN UNCHANGED <<qi, si>>
               ELSE IF si < Len(farmacias) THEN si' = si + 1 /\ qi' = qi
               ELSE si' = 1 /\ qi' = qi + 1
    /\ late' = (late \/ session # "open")
    /\ UNCHANGED <<config, call, session, quits>>

\* the for loops are exhausted
LoopExit ==
    /\ pc = "loop"
    /\ qi > Len(productos)
    /\ pc' = "finally"
    /\ UNCHANGED <<config, call, qi, si, session, quits, late, file, last>>

\* a mutation of Fatal: the handler skips the failed pair and the loop goes on
FatalSigue ==
    /\ pc = "except"
    /\ pc' = "loop"
    /\ IF si < Len(farmacias) THEN si' = si + 1 /\ qi' = qi
       ELSE si' = 1 /\ qi' = qi + 1
    /\ UNCHANGED <<config, call, session, quits, late, file, last>>

\* a mutation of Fatal: the handler releases the session, and so does finally
FatalCierra ==
    /\ pc = "except"
    /\ pc' = "finally"
    /\ session' = "closed"
    /\ quits' = quits + 1
    /\ UNCHANGED <<config, call, qi, si, late, file, last>>

\* a mutation of Fatal: the handler goes back to the loop at the failed pair
FatalReintenta ==
    /\ pc = "except"
    /\ pc' = "loop"
    /\ UNCHANGED <<config, call, qi, si, session, quits, late, file, last>>

\* except Exception as e: the traceback is printed
Fatal ==
    /\ pc = "except"
    /\ pc' = "finally"
    /\ UNCHANGED <<config, call, qi, si, session, quits, late, file, last>>

\* finally: driver.quit()
Quit ==
    /\ pc = "finally"
    /\ session' = "closed"
    /\ quits' = quits + 1
    /\ pc' = "done"
    /\ UNCHANGED <<config, call, qi, si, late, file, last>>

DispatchRun == Dispatch(RunTexts)

Next == Start \/ DispatchRun \/ LoopExit \/ Fatal \/ Quit

Spec == Init /\ [][Next]_vars

\* One dispatch of price_scrapper4.scrapper_general on any one site, the site
\* serving any page built from WideTexts.
InitOne == InitWith({"p4"}, {<<[ean |-> "7702418000100", keyword |-> KwCebion]>>}, Ventanas(1))

DispatchWide == Dispatch(WideTexts)

NextOne == Start \/ DispatchWide \/ LoopExit \/ Fatal \/ Quit

SpecOne == InitOne /\ [][NextOne]_vars

\* The same run under the scheduling the interpreter gives it: the program is
\* sequential and each of its steps ends, driver.get within the page-load
\* timeout and every wait within its own.
FairSpec == Spec /\ WF_vars(Next)

\* ------------------------------------------------ the utilities alone

\* the longest text handed to the Name Matcher
MaxTextLen == 3

\* the longest raw price handed to a normalizer
MaxRawLen == 4

\* "VapoRub Vick 50ml"
NameVapoRub ==
    <<"V", "a", "p", "o", "R", "u", "b", " ", "V", "i", "c", "k", " ", "5", "0",
      "m", "l">>
KwVick == <<"v", "i", "c", "k">>

\* "$ 12.345"
P12 == <<"$", " ", "1", "2", ".", "3", "4", "5">>

\* letters with and without accent, in both cases, and whitespace
TextChars == {"a", "A", "o'", "O'", "^", " ", "\t", "\n"}

Textos == TextsUpTo(TextChars, MaxTextLen) \cup {NameCebion, NameVick, NameVapoRub}

NameChars == {"a", "A", "o'", " "}
KwChars == {"a", "o", " "}

\* the (name, keyword) pairs handed to the Name Matcher
Nombrados ==
    (Opt(TextsUpTo(NameChars, MaxTextLen)) \X Opt(TextsUpTo(KwChars, MaxTextLen - 1)))
    \cup {<<NameCebion, KwCebion>>, <<NameVick, KwCebion>>, <<<<>>, KwCebion>>,
          <<None, KwCebion>>, <<NameVapoRub, KwVick>>, <<NameVapoRub, <<>>>>}

RawChars == {"$", "1", "2", ".", ","}

\* the raw prices handed to a normalizer
RawPrices == TextsUpTo(RawChars, MaxRawLen) \cup {P12, P20, P30, P45, ZeroText}

\* the extractor scrapper_general runs for a site
ExtraerPara(pagina, e) ==
    CASE pagina = "larebaja_co" -> extraer_datos_larebaja(e)
      [] pagina = "locatel_co" -> extraer_datos_locatel(e)
      [] pagina = "olimpica_co" -> extraer_datos_olimpica(e)
      [] pagina = "pasteur_co" -> extraer_datos_pasteur(e)
      [] pagina = "cruzverde_co" -> extraer_datos_cruzverde(e)
      [] pagina = "farmatodo_co" -> extraer_datos_farmatodo(e)
      [] pagina = "colsubsidio_co" -> extraer_datos_colsubsidio(e)
      [] pagina = "cafam_co" -> extraer_datos_cafam(e)

InitUtil ==
    /\ entry = "p4"
    /\ productos = CatalogoCo
    /\ farmacias = FARMACIAS_A_BUSCAR
    /\ pc = "util"
    /\ qi = 1 /\ si = 1
    /\ session = "none" /\ quits = 0 /\ late = FALSE
    /\ file = <<>>
    /\ last = NoLast
    /\ call = NoCall

\* one call of a utility: its name, its arguments, what it returned or raised
Aplicar(fn, args, out) ==
    /\ call' = [fn |-> fn, args |-> args, out |-> out]
    /\ pc' = "returned"
    /\ UNCHANGED <<config, qi, si, session, quits, late, file, last>>

CallNormalizarPrecio ==
    /\ pc = "util"
    /\ \E raw \in Opt(RawPrices) :
           Aplicar("normalizar_precio", <<raw>>, normalizar_precio(raw))

CallNormalizarPrecioCafam ==
    /\ pc = "util"
    /\ \E raw \in Opt(RawPrices) :
           Aplicar("normalizar_precio_cafam", <<raw>>, normalizar_precio_cafam(raw))

\* the normalizer scrapper_general picks for a site, on an extractor's price
CallNormalizarPara ==
    /\ pc = "util"
    /\ \E i \in 1..Len(FARMACIAS_A_BUSCAR), raw \in RawPrices :
           Aplicar("normalizar", <<FARMACIAS_A_BUSCAR[i], raw>>,
                   NormalizarPara(FARMACIAS_A_BUSCAR[i], raw))

CallNormalizarTexto ==
    /\ pc = "util"
    /\ \E texto \in Opt(Textos) :
           Aplicar("normalizar_texto_para_comparacion", <<texto>>,
                   Ret(normalizar_texto_para_comparacion(texto)))

CallValidarNombre ==
    /\ pc = "util"
    /\ \E nk \in Nombrados :
           Aplicar("validar_nombre_producto", nk,
                   Ret(validar_nombre_producto(nk[1], nk[2])))

CallExtraer ==
    /\ pc = "util"
    /\ \E i \in 1..Len(FARMACIAS_A_BUSCAR) :
           \E e \in Elementos(FARMACIAS_A_BUSCAR[i], WideTexts) :
               Aplicar("extraer_datos", <<FARMACIAS_A_BUSCAR[i], e>>,
                       ExtraerPara(FARMACIAS_A_BUSCAR[i], e))

NextUtil ==
    \/ CallNormalizarPrecio
    \/ CallNormalizarPrecioCafam
    \/ CallNormalizarPara
    \/ CallNormalizarTexto
    \/ CallValidarNombre
    \/ CallExtraer

SpecUtil == InitUtil /\ [][NextUtil]_vars

\* ------------------------------------------------------------ the claims

LastRow == file[Len(file)]

\* the place in the nested loop of the next dispatch
Pos == (qi - 1) * Len(farmacias) + si

\* the last dispatch got as far as its strategy branch
Reached == last.get = "ok" /\ last.body = "ok"

\* the last dispatch's strategy found no container within its waits
StrategyTimedOut ==
    IF last.pagina = "farmatodo_co"
    THEN last.wait = "timeout" /\ last.fallback = "timeout"
    ELSE last.wait = "timeout"

\* a wait of the last dispatch exceeded its deadline
TimedOut ==
    \/ last.get = "timeout"
    \/ last.get = "ok" /\ last.body = "timeout"
    \/ Reached /\ StrategyTimedOut

\* the result of the last dispatch is the last line of the file
Wrote(fila) == Len(file) > 1 /\ NRows(file) = last.after /\ LastRow = fila

\* C1: a full run of the multi-product driver over N queries and M sites ends
\* with exactly N x M rows in the file, and every call of scrapper_general
\* appends exactly one row, whatever the sites answer short of a fault of the
\* browser itself.
C1_Cardinality ==
    (entry = "p4" /\ last.exc # "WebDriverException") =>
        /\ last.pagina # "" => last.after = last.before + 1
        /\ pc = "done" => NRows(file) = Len(productos) * Len(farmacias)

\* C2: every row of the file has sale price <= list price whenever its list
\* price is positive.
C2_SaleAtMostList ==
    \A i \in 1..Len(file) :
        (file[i].kind = "row" /\ file[i].cells[6] > 0) =>
            file[i].cells[5] <= file[i].cells[6]

\* C2 witness: a validated Cafam extraction whose online price normalizes
\* above its list price has been written with the prices swapped.
C2_Witness ==
    /\ last.pagina = "cafam_co" /\ last.path = "validated"
    /\ normalizar_precio_cafam(last.datos.p_online).val
         > normalizar_precio_cafam(last.datos.p_normal).val
    /\ normalizar_precio_cafam(last.datos.p_normal).val > 0
    /\ Len(file) > 1 /\ LastRow.cells[5] < LastRow.cells[6]

\* C3: every row of the file is marked "Disponible" exactly when its sale
\* price is positive.
C3_StockIffSale ==
    \A i \in 1..Len(file) :
        file[i].kind = "row" =>
            (file[i].cells[7] = "Disponible" <=> file[i].cells[5] > 0)

\* C3 witness: a wait timed out and the row written for it is not in stock.
C3_Witness ==
    /\ entry = "p4" /\ last.path = "timeout"
    /\ Len(file) > 1 /\ LastRow.cells[7] = "No Disponible" /\ LastRow.cells[5] = 0

\* C4: when a wait of a dispatch of the multi-product driver exceeds its
\* deadline, the dispatch saves one screenshot, appends exactly one row, the
\* "No disponible" row, raises nothing, and the loop has moved to the next pair.
C4_TimeoutRecovered ==
    (entry = "p4" /\ TimedOut) =>
        /\ last.exc = "none"
        /\ last.shots = <<<<last.pagina, last.ean>>>>
        /\ last.after = last.before + 1
        /\ Wrote(FilaNoDisponible(last.pagina, last.ean))
        /\ pc \in {"loop", "finally", "done"}
        /\ Pos = last.k + 1

\* C4 witness: Farmatodo's primary and fallback waits both timed out after an
\* earlier pair, and the loop stands at the pair after it.
C4_Witness ==
    /\ entry = "p4" /\ last.pagina = "farmatodo_co" /\ Reached
    /\ last.wait = "timeout" /\ last.fallback = "timeout"
    /\ last.k = 2 /\ pc = "loop" /\ Pos = 3 /\ NRows(file) = 2

\* C5: a row with the extracted name and positive prices is written only when
\* the extracted name matches the keyword; an extraction whose name does not
\* match is written as the mismatch row, on every site.
C5_ValidatedOnly ==
    (entry = "p4" /\ last.pagina # "" /\ last.exc = "none") =>
        /\ Len(file) > 1 /\ NRows(file) = last.after
        /\ LastRow.cells[5] > 0 =>
             /\ last.datos.has
             /\ LastRow.cells[3] = last.datos.nombre
             /\ LastRow.cells[4] = last.datos.marca
             /\ validar_nombre_producto(last.datos.nombre, last.keyword)
        /\ (last.datos.has
              /\ ~validar_nombre_producto(last.datos.nombre, last.keyword)) =>
             LastRow = FilaNoCoincide(last.pagina, last.ean)

\* C5 witness: a direct-page site served a product whose name does not hold
\* the keyword, with a positive price, and the mismatch row was written.
C5_Witness ==
    /\ entry = "p4" /\ last.pagina \in DirectSites /\ last.datos.has
    /\ last.datos.nombre = NameVick /\ last.keyword = KwCebion
    /\ normalizar_precio(last.datos.p_online).val > 0
    /\ Wrote(FilaNoCoincide(last.pagina, last.ean))

\* the last dispatch went to a list-first site and found no result container
ContainerMissing ==
    /\ last.pagina \in {"cruzverde_co", "farmatodo_co", "colsubsidio_co", "cafam_co"}
    /\ Reached
    /\ StrategyTimedOut \/ (last.pagina = "cafam_co" /\ ~last.found)

\* C6: on a list-first site, when no result container is found the dispatch
\* writes the "No disponible" row and the run goes on with the next pair.
C6_NoContainerNotFound ==
    (entry = "p4" /\ ContainerMissing) =>
        /\ last.exc = "none"
        /\ Wrote(FilaNoDisponible(last.pagina, last.ean))
        /\ pc \in {"loop", "finally", "done"}
        /\ Pos = last.k + 1

\* the first item of the Pasteur page whose name matches the keyword, 0 for none
FirstMatch ==
    IF \E i \in 1..Len(last.nombres) :
           validar_nombre_producto(last.nombres[i], last.keyword)
    THEN CHOOSE i \in 1..Len(last.nombres) :
           /\ validar_nombre_producto(last.nombres[i], last.keyword)
           /\ \A j \in 1..(i - 1) :
                ~validar_nombre_producto(last.nombres[j], last.keyword)
    ELSE 0

\* C7: on Pasteur the items are examined in document order up to the first
\* whose name matches the keyword, the extractor runs on that item and on no
\* other, and with no matching item the "No disponible" row is written.
C7_FirstMatchOnly ==
    (entry = "p4" /\ last.pagina = "pasteur_co" /\ Reached /\ last.wait = "ok") =>
        IF FirstMatch = 0
        THEN /\ last.examined = [i \in 1..Len(last.nombres) |-> i]
             /\ last.extracted = 0 /\ ~last.datos.has
             /\ Wrote(FilaNoDisponible(last.pagina, last.ean))
        ELSE /\ last.examined = [i \in 1..FirstMatch |-> i]
             /\ last.extracted = FirstMatch
             /\ last.datos.has /\ last.datos.nombre = last.nombres[FirstMatch]

\* C7 witness: two items, the first matches, the second was not examined.
C7_Witness ==
    /\ entry = "p4" /\ last.pagina = "pasteur_co" /\ Len(last.nombres) = 2
    /\ FirstMatch = 1 /\ last.examined = <<1>> /\ last.path = "validated"

\* a fault has escaped the last dispatch
Escaped == last.exc # "none"

\* C8: once a fault has escaped a dispatch, no other pair is dispatched, the
\* file keeps exactly the rows it had, the run can only go on to its end, and
\* at its end the session is released.
C8_FatalKeepsRows ==
    /\ [][ /\ (Escaped' /\ last' # last) => file' = file
           /\ Escaped => (file' = file /\ last' = last /\ Pos' = Pos) ]_vars
    /\ [](Escaped => /\ pc \in {"except", "finally", "done"}
                     /\ NRows(file) = last.before
                     /\ pc # "done" => ENABLED Next
                     /\ pc = "done" => session = "closed")

\* C8 witness: the run ended on a fault of its third dispatch, with the two
\* rows written before it.
C8_Witness ==
    /\ entry = "p4" /\ pc = "done" /\ Escaped /\ last.k = 3
    /\ NRows(file) = 2 /\ session = "closed"

\* C9: at either entry point the session is released exactly once, by the
\* end of the run and not before the last dispatch has finished, and no
\* dispatch uses it after its release.
C9_QuitOnce ==
    /\ quits <= 1
    /\ ~late
    /\ pc \in {"loop", "except", "finally"} => (session = "open" /\ quits = 0)
    /\ pc = "done" => (session = "closed" /\ quits = 1)

\* C9 witness: a run of the single-product driver that a fault cut short has
\* ended with the session released.
C9_Witness ==
    /\ entry = "co" /\ pc = "done" /\ Escaped /\ quits = 1 /\ session = "closed"

\* C10: a validated extraction with normalized prices (o, l) is written with
\* prices (o, o) when o > 0 and l = 0, (l, o) when o > l > 0, and (o, l) in
\* every other case with o > 0.
C10_PriceRules ==
    (entry = "p4" /\ last.exc = "none" /\ last.datos.has
       /\ validar_nombre_producto(last.datos.nombre, last.keyword)) =>
        LET o == NormalizarPara(last.pagina, last.datos.p_online).val
            l == NormalizarPara(last.pagina, last.datos.p_normal).val
            written == <<LastRow.cells[5], LastRow.cells[6]>>
        IN o > 0 =>
             /\ Len(file) > 1 /\ NRows(file) = last.after
             /\ LastRow.cells[3] = last.datos.nombre
             /\ LastRow.cells[7] = "Disponible"
             /\ written = (IF l = 0 THEN <<o, o>>
                           ELSE IF o > l THEN <<l, o>> ELSE <<o, l>>)

\* C10 witness: sale "$ 30.000" and list "$20.000" were written as sale 20000,
\* list 30000, in stock.
C10_Witness ==
    /\ entry = "p4" /\ last.path = "validated"
    /\ last.datos.p_online = P30 /\ last.datos.p_normal = P20
    /\ Len(file) > 1
    /\ LastRow.cells[5] = 20000 /\ LastRow.cells[6] = 30000
    /\ LastRow.cells[7] = "Disponible"

\* C11: a validated extraction whose online price normalizes to 0 is written
\* with the extracted name, the brand "N/A" whatever brand was extracted, and
\* "No Disponible".
C11_ZeroPriceRow ==
    (entry = "p4" /\ last.exc = "none" /\ last.datos.has
       /\ validar_nombre_producto(last.datos.nombre, last.keyword)
       /\ NormalizarPara(last.pagina, last.datos.p_online).val = 0) =>
        /\ Len(file) > 1 /\ NRows(file) = last.after
        /\ last.after = last.before + 1
        /\ LastRow.cells[1] = last.pagina /\ LastRow.cells[2] = last.ean
        /\ LastRow.cells[3] = last.datos.nombre
        /\ LastRow.cells[4] = NA
        /\ LastRow.cells[5] = 0
        /\ LastRow.cells[7] = "No Disponible"

\* C11 witness: Farmatodo served brand "MK", online price "$0" and list price
\* "$ 30.000"; the row keeps the name and carries the brand "N/A".
C11_Witness ==
    /\ entry = "p4" /\ last.pagina = "farmatodo_co" /\ last.path = "zero"
    /\ last.datos.nombre = NameCebion /\ last.datos.marca = BrandMK
    /\ last.datos.p_online = <<"$", "0">> /\ last.datos.p_normal = P30
    /\ Len(file) > 1
    /\ LastRow.cells[3] = NameCebion /\ LastRow.cells[4] = NA
    /\ LastRow.cells[7] = "No Disponible"

\* K appears in N as a run of consecutive characters
EsSubcadena(K, N) ==
    \E i \in 0..(Len(N) - Len(K)) : \A j \in 1..Len(K) : N[i + j] = K[j]

\* C12: validar_nombre_producto(name, keyword) is true exactly when both are
\* present and non-empty and the normalized keyword is a run of consecutive
\* characters of the normalized name, and it raises nothing.
C12_Matcher ==
    call.fn = "validar_nombre_producto" =>
        LET n == call.args[1]
            k == call.args[2]
            presentes == n # None /\ n # <<>> /\ k # None /\ k # <<>>
        IN /\ call.out.exc = "none"
           /\ call.out.val =
                (presentes /\ EsSubcadena(normalizar_texto_para_comparacion(k),
                                          normalizar_texto_para_comparacion(n)))
           /\ (call.args = <<NameCebion, KwCebion>> => call.out.val)
           /\ (call.args = <<NameVick, KwCebion>> => ~call.out.val)
           /\ (call.args = <<<<>>, KwCebion>> => ~call.out.val)
           /\ (call.args = <<NameVapoRub, KwVick>> => call.out.val)

\* C12 witness: "Cebión Vitamina C" was matched against "cebion".
C12_Witness ==
    /\ call.fn = "validar_nombre_producto"
    /\ call.args = <<NameCebion, KwCebion>>
    /\ call.out = Ret(TRUE)

\* C13: the text normalizar_texto_para_comparacion returns holds no combining
\* mark, no upper-case letter and no whitespace character, tab and newline
\* included.
C13_NoMarksCaseSpace ==
    call.fn = "normalizar_texto_para_comparacion" =>
        /\ call.out.exc = "none"
        /\ \A i \in 1..Len(call.out.val) :
             /\ call.out.val[i] # "^"
             /\ call.out.val[i] \notin {UpperLetters[j] : j \in 1..Len(UpperLetters)}
             /\ call.out.val[i] \notin {" ", "\t", "\n"}

EsCifra(c) == \E i \in 1..Len(DigitChars) : DigitChars[i] = c

RECURSIVE Pow10(_)
Pow10(n) == IF n = 0 THEN 1 ELSE 10 * Pow10(n - 1)

\* the number whose decimal digits are ds[1..i], each at the place it has in ds
RECURSIVE SumaDecimal(_, _)
SumaDecimal(ds, i) ==
    IF i = 0 THEN 0
    ELSE (DigitVal(ds[i]) * Pow10(Len(ds) - i)) + SumaDecimal(ds, i - 1)

\* C14: normalizar_precio returns the non-negative integer written by the
\* digits of its argument in their order, and 0 for an empty or absent
\* argument or one with no digit; "$ 12.345" gives 12345.
C14_DigitsInOrder ==
    call.fn = "normalizar_precio" =>
        LET raw == call.args[1]
            ds == IF raw = None THEN <<>> ELSE SelectSeq(raw, EsCifra)
        IN /\ call.out.exc = "none"
           /\ call.out.val = SumaDecimal(ds, Len(ds))
           /\ call.out.val >= 0
           /\ (ds = <<>> => call.out.val = 0)
           /\ (raw = P12 => call.out.val = 12345)

\* C14 witness: "$ 12.345" was normalized to 12345.
C14_Witness ==
    /\ call.fn = "normalizar_precio" /\ call.args = <<P12>>
    /\ call.out = Ret(12345)

\* the part of s before its first comma, all of s when it has none
AntesDeComa(s) ==
    CHOOSE p \in {SubSeq(s, 1, n) : n \in 0..Len(s)} :
        /\ \A i \in 1..Len(p) : p[i] # ","
        /\ Len(p) = Len(s) \/ s[Len(p) + 1] = ","

\* C15: on a string, normalizar_precio_cafam equals normalizar_precio of the
\* part before the first comma ("45,670 aprox" gives 45), and scrapper_general
\* normalizes with the Cafam variant for cafam_co and with the general one for
\* every other site.
C15_CafamBeforeComma ==
    /\ (call.fn = "normalizar_precio_cafam" /\ call.args[1] # None) =>
          /\ call.out = normalizar_precio(AntesDeComa(call.args[1]))
          /\ (call.args[1] = P45 => call.out = Ret(45))
    /\ call.fn = "normalizar" =>
          call.out = IF call.args[1] = "cafam_co"
                     THEN normalizar_precio(AntesDeComa(call.args[2]))
                     ELSE normalizar_precio(call.args[2])

\* C15 witness: "45,670 aprox" was normalized for cafam_co and gave 45.
C15_Witness ==
    /\ call.fn = "normalizar" /\ call.args[1] = "cafam_co" /\ call.args[2] = P45
    /\ call.out = Ret(45)

\* C16: neither normalizer raises; each returns an integer, and 0 for an
\* absent or empty argument.
C16_NeverRaise ==
    call.fn \in {"normalizar_precio", "normalizar_precio_cafam"} =>
        /\ call.out.exc = "none"
        /\ call.out.val \in Nat
        /\ call.args[1] \in {None, <<>>} => call.out.val = 0

\* the locators an extractor looks up on a site
Locators(pagina) ==
    IF pagina \in {"farmatodo_co", "larebaja_co", "olimpica_co"}
    THEN {"nombre", "marca", "p_online", "p_normal"}
    ELSE IF pagina = "cafam_co" THEN {"nombre", "p_online", "p_sale", "p_normal"}
    ELSE {"nombre", "p_online", "p_normal"}

\* the locators that find nothing in element e of a site
Faltan(pagina, e) ==
    IF pagina = "cruzverde_co"
    THEN (IF \A i \in 1..Len(e.divs) : e.divs[i] = e.italic THEN {"nombre"} ELSE {})
         \cup (IF e.italic = None THEN {"marca"} ELSE {})
         \cup (IF e.spans = <<>> THEN {"p_online"} ELSE {})
         \cup (IF e.ps = <<>> THEN {"p_normal"} ELSE {})
    ELSE { k \in Locators(pagina) : e[k] = None }

\* C17: when exactly one locator of a site finds no element, the extractor
\* raises nothing and returns all four fields, the missing name as "N/A" and
\* the others as a sentinel or a fallback value.
C17_SingleMiss ==
    (call.fn = "extraer_datos"
       /\ Cardinality(Faltan(call.args[1], call.args[2])) = 1) =>
        /\ call.out.exc = "none"
        /\ call.out.val.has
        /\ Truthy(call.out.val.nombre) /\ Truthy(call.out.val.marca)
        /\ Truthy(call.out.val.p_online) /\ Truthy(call.out.val.p_normal)
        /\ "nombre" \in Faltan(call.args[1], call.args[2]) =>
             call.out.val.nombre = NA

\* C18: the run starts by resetting the file; from then on every change of
\* the file appends one row of the pair just dispatched, after the header when
\* the file was empty, and leaves every earlier line as it was; so the file is
\* the header followed by the rows appended, in append order.
C18_HeaderThenRows ==
    /\ [][ /\ pc = "start" => file' = <<>>
           /\ (pc # "start" /\ file' # file) =>
                /\ file' = (IF file = <<>> THEN <<Header>> ELSE file)
                             \o <<file'[Len(file')]>>
                /\ file'[Len(file')].kind = "row"
                /\ file'[Len(file')].cells[1] = last'.pagina
                /\ file'[Len(file')].cells[2] = last'.ean
                /\ NRows(file') = NRows(file) + 1 ]_vars
    /\ []((pc # "start" /\ file # <<>>) =>
              /\ Len(file) >= 2
              /\ file[1] = Header
              /\ \A i \in 2..Len(file) : file[i].kind = "row")

\* C18 witness: a run has appended three rows, which follow the one header in
\* the order of their dispatch.
C18_Witness ==
    /\ pc = "loop" /\ Len(farmacias) >= 3 /\ Len(file) = 4
    /\ file[1] = Header
    /\ \A i \in 1..3 : file[i + 1].kind = "row" /\ file[i + 1].cells[1] = farmacias[i]

\* C19: every run ends with the session released, whatever the sites answer;
\* on the way each dispatch is of the pair after the one dispatched before it,
\* so no pair is dispatched twice.
C19_Terminates ==
    /\ <>(pc = "done" /\ session = "closed")
    /\ [][(pc = "loop" /\ pc' # "finally") => last'.k = last.k + 1]_vars

\* C19 witness: the fourth and last pair of a run met a site that never became
\* ready, and the run has ended.
C19_Witness ==
    /\ pc = "done" /\ session = "closed"
    /\ last.k = 4 /\ Len(productos) * Len(farmacias) = 4
    /\ TimedOut /\ last.wait = "timeout"

\* C20: the single-product driver appends exactly one row per site, whatever
\* the outcome: a timeout, a Pasteur list with no matching item, a missing
\* name or a zero online price gives a row with prices 0/0 marked
\* "No Disponible", and a run that no fault cut short ends with one row per
\* site.
C20_OneRowPerSiteCo ==
    entry = "co" =>
        /\ (last.pagina # "" /\ last.exc = "none") =>
              /\ last.after = last.before + 1
              /\ Len(file) > 1
              /\ LastRow.cells[1] = last.pagina /\ LastRow.cells[2] = last.ean
              /\ last.path # "validated" =>
                    /\ LastRow.cells[5] = 0 /\ LastRow.cells[6] = 0
                    /\ LastRow.cells[7] = "No Disponible"
        /\ (pc = "done" /\ ~Escaped) => NRows(file) = Len(farmacias)

\* the sites whose extractor takes the online price for a missing list price
ListaDesdeOnline ==
    {"larebaja_co", "locatel_co", "colsubsidio_co", "cafam_co", "olimpica_co",
     "pasteur_co"}

\* the sites whose extractor takes the list price for a missing online price
OnlineDesdeLista == {"olimpica_co", "cafam_co"}

\* the online-price locators of a site, in the order they are tried
LocOnline(pagina) ==
    IF pagina = "cafam_co" THEN <<"p_online", "p_sale">> ELSE <<"p_online">>

\* the non-empty texts, in order, that the locators ks find in element e
Hallados(e, ks) ==
    SelectSeq([i \in 1..Len(ks) |-> IF e[ks[i]] = None THEN <<>> ELSE Strip(e[ks[i]])],
              LAMBDA t : t # <<>>)

\* C21: with the list-price locator absent and an online price present, the
\* six extractors with that fallback return the online price as list price;
\* with the online-price locators absent and the list price present, Olimpica
\* and Cafam return the list price as online price, Cafam trying its primary
\* and then its secondary online selector first; a price field with no text
\* of its own is "0" only when its fallback gave no value either, and is "0"
\* whenever neither gave one.
C21_PriceFallback ==
    (call.fn = "extraer_datos" /\ call.args[1] # "cruzverde_co") =>
        call.out.exc = "none" /\
        LET pagina == call.args[1]
            e == call.args[2]
            d == call.out.val
            online == Hallados(e, LocOnline(pagina))
            lista == Hallados(e, <<"p_normal">>)
            onlinePresente == \E i \in 1..Len(LocOnline(pagina)) :
                                 e[LocOnline(pagina)[i]] # None
        IN /\ online # <<>> => d.p_online = online[1]
           /\ lista # <<>> => d.p_normal = lista[1]
           /\ (pagina \in ListaDesdeOnline /\ e.p_normal = None /\ onlinePresente) =>
                 d.p_normal = d.p_online
           /\ (pagina \in OnlineDesdeLista /\ ~onlinePresente /\ e.p_normal # None) =>
                 d.p_online = d.p_normal
           /\ (online = <<>> /\ d.p_online = ZeroText /\ pagina \in OnlineDesdeLista) =>
                 (lista = <<>> \/ lista[1] = ZeroText)
           /\ (lista = <<>> /\ d.p_normal = ZeroText /\ pagina \in ListaDesdeOnline) =>
                 (online = <<>> \/ online[1] = ZeroText)
           /\ (online = <<>> /\ (pagina \notin OnlineDesdeLista \/ lista = <<>>)) =>
                 d.p_online = ZeroText
           /\ (lista = <<>> /\ (pagina \notin ListaDesdeOnline \/ online = <<>>)) =>
                 d.p_normal = ZeroText

\* C21 witness: on a Cafam card without the primary online price and without
\* list price, the secondary online price "$20.000" came back as both prices.
C21_Witness ==
    /\ call.fn = "extraer_datos" /\ call.args[1] = "cafam_co"
    /\ call.args[2].p_online = None /\ call.args[2].p_sale = P20
    /\ call.args[2].p_normal = None
    /\ call.out.exc = "none"
    /\ call.out.val.p_online = P20 /\ call.out.val.p_normal = P20

\* C22: on Farmatodo the extraction runs on the container of the primary
\* selector whenever the primary wait succeeds, whatever the fallback selector
\* would find, and on the container of the fallback selector only after the
\* primary wait has timed out; the timeout row is written only when both
\* waits time out.
C22_FallbackAfterPrimary ==
    (entry = "p4" /\ last.pagina = "farmatodo_co" /\ Reached) =>
        /\ last.wait = "ok" =>
              /\ last.extracted = 1 /\ last.datos.has
              /\ last.datos.nombre = OrElse(last.nombres[1], NA)
              /\ last.path # "timeout" /\ last.shots = <<>>
        /\ (last.wait = "timeout" /\ last.fallback = "ok") =>
              /\ last.extracted = 2 /\ last.datos.has
              /\ last.datos.nombre = OrElse(last.nombres[2], NA)
              /\ last.path # "timeout" /\ last.shots = <<>>
        /\ last.path = "timeout" <=> (last.wait = "timeout" /\ last.fallback = "timeout")
        /\ last.path = "timeout" =>
              /\ last.extracted = 0 /\ ~last.datos.has
              /\ Wrote(FilaNoDisponible(last.pagina, last.ean))

\* C22 witness: the primary wait timed out, the fallback wait found a
\* container, and the row written carries the name read in that container.
C22_Witness ==
    /\ entry = "p4" /\ last.pagina = "farmatodo_co" /\ Reached
    /\ last.wait = "timeout" /\ last.fallback = "ok"
    /\ last.extracted = 2 /\ last.path = "validated"
    /\ last.nombres[1] = NameVick /\ last.nombres[2] = NameCebion
    /\ Len(file) > 1 /\ LastRow.cells[3] = NameCebion

\* C23: every row of the file is either "Disponible" with 0 < sale price <=
\* list price, and then it carries the extracted name and brand, or
\* "No Disponible" with sale price 0, list price 0 and brand "N/A".
C23_TwoShapes ==
    /\ \A i \in 1..Len(file) :
          file[i].kind = "row" =>
             \/ /\ file[i].cells[7] = "Disponible"
                /\ 0 < file[i].cells[5] /\ file[i].cells[5] <= file[i].cells[6]
             \/ /\ file[i].cells[7] = "No Disponible"
                /\ file[i].cells[5] = 0 /\ file[i].cells[6] = 0
                /\ file[i].cells[4] = NA
    /\ (last.pagina # "" /\ last.exc = "none" /\ Len(file) > 1
          /\ NRows(file) = last.after /\ last.after = last.before + 1
          /\ LastRow.cells[7] = "Disponible") =>
             /\ last.datos.has
             /\ LastRow.cells[3] = last.datos.nombre
             /\ LastRow.cells[4] = last.datos.marca

\* C23 witness: La Rebaja served online price "$0" and list price "$ 30.000";
\* the row is "No Disponible" with prices 0 and 0 and brand "N/A".
C23_Witness ==
    /\ entry = "p4" /\ last.pagina = "larebaja_co" /\ last.path = "zero"
    /\ last.datos.p_online = <<"$", "0">> /\ last.datos.p_normal = P30
    /\ normalizar_precio(last.datos.p_normal).val = 30000
    /\ last.datos.marca = BrandMK
    /\ Len(file) > 1
    /\ LastRow.cells[5] = 0 /\ LastRow.cells[6] = 0 /\ LastRow.cells[4] = NA
    /\ LastRow.cells[7] = "No Disponible"

\* C24: whatever name candidates, manufacturer element and price elements a
\* Cruz Verde card holds, extraer_datos_cruzverde raises nothing, the dispatch
\* appends one row and the run goes on with the next pair.
C24_CruzVerdeNeverRaises ==
    (entry = "p4" /\ last.pagina = "cruzverde_co" /\ Reached /\ last.wait = "ok") =>
        /\ last.exc = "none"
        /\ last.datos.has
        /\ last.after = last.before + 1
        /\ pc \in {"loop", "finally", "done"}
        /\ Pos = last.k + 1
====
